---- MODULE Spec2Model ----
(***************************************************************************)
(* A model of src/src/main.rs: the matrix editor of run_app (two text      *)
(* buffers, selector, input trace, optional answer), parse_matrices,       *)
(* multiply_matrices and multiply_matrices_threaded.                       *)
(*                                                                         *)
(* A Rust String is a sequence of one-character strings, Option<Matrix>   *)
(* is <<>> (None) or <<m>> (Some(m)), a Matrix is a sequence of rows.      *)
(* The cells of the model stay far below 2^63, so the i64 sums and         *)
(* products of the model never reach the width of the type.                *)
(***************************************************************************)
EXTENDS Integers, Sequences, FiniteSets, TLC

VARIABLES
    curr_matrix,   \* App.curr_matrix
    matrix_text,   \* App.matrix_text, indexed 0 and 1
    curr_string,   \* App.curr_string
    answer,        \* App.answer
    status,        \* where run_app is: "running", "returned" or "panicked"
    last_key,      \* the event the loop of run_app handled last
    was_empty,     \* whether the active buffer was empty when it was received
    m1, m2,        \* arguments of multiply_matrices_threaded
    thread_count,  \* argument of multiply_matrices_threaded
    cpc,           \* where the calling thread is in multiply_matrices_threaded
    spawned,       \* number of workers spawned so far (loop of line 311)
    joined,        \* number of workers joined so far (loop of line 340)
    wpc,           \* wpc[th]: where worker th is in its closure
    chan,          \* the mpsc channel: reports sent and not yet received
    nsent,         \* nsent[th]: reports worker th has sent
    taken,         \* reports the calling thread has received
    result         \* the result vector of the calling thread; <<>> before line 344

appVars == <<curr_matrix, matrix_text, curr_string, answer, status, last_key, was_empty>>
thrVars == <<m1, m2, thread_count, cpc, spawned, joined, wpc, chan, nsent, taken, result>>
vars == <<appVars, thrVars>>

(***************************************************************************)
(* Bounds of the model.                                                    *)
(***************************************************************************)
MaxLen == 2       \* longest buffer the typed-event specification builds
MaxDim == 2       \* most rows and most columns of a drawn matrix
MaxFirst == 8     \* largest first cell of a drawn matrix
MaxRows == 3      \* most rows of the first argument of the threaded product
MaxThreads == 5   \* largest thread_count drawn

None == <<>>
Some(x) == <<x>>

Digits == {"0", "1", "2", "3", "4", "5", "6", "7", "8", "9"}
KeyDigits == {"2"}          \* the digit keys the typed-event specification presses
OtherKeys == {"x"}          \* a key no arm of the match handles

DigitValue(c) ==
    CASE c = "0" -> 0 [] c = "1" -> 1 [] c = "2" -> 2 [] c = "3" -> 3
      [] c = "4" -> 4 [] c = "5" -> 5 [] c = "6" -> 6 [] c = "7" -> 7
      [] c = "8" -> 8 [] c = "9" -> 9

(***************************************************************************)
(* str::split(sep): the pieces between the separators; one more piece than *)
(* there are separators, so the empty string gives one empty piece.        *)
(***************************************************************************)
RECURSIVE Split(_, _)
Split(s, sep) ==
    IF \A i \in 1..Len(s) : s[i] # sep
    THEN <<s>>
    ELSE LET i == CHOOSE n \in 1..Len(s) :
                      s[n] = sep /\ \A j \in 1..(n - 1) : s[j] # sep
         IN  <<SubSeq(s, 1, i - 1)>> \o Split(SubSeq(s, i + 1, Len(s)), sep)

(***************************************************************************)
(* str::parse::<i64>() on a cell: Err on the empty string and on any       *)
(* character that is not a digit (no key types a sign), else the value.    *)
(***************************************************************************)
ParseOk(cell) == Len(cell) > 0 /\ \A i \in 1..Len(cell) : cell[i] \in Digits

RECURSIVE ParseVal(_)
ParseVal(cell) ==
    IF Len(cell) = 0 THEN 0
    ELSE 10 * ParseVal(SubSeq(cell, 1, Len(cell) - 1)) + DigitValue(cell[Len(cell)])

\* lines 356-366: the rows of a buffer, each split into its cell strings
CellStrings(text) ==
    LET a == Split(text, "\n")
    IN  [i \in 1..Len(a) |-> Split(a[i], "_")]

\* lines 368-376: whether every unwrap() of the parse succeeds
AllParse(cs) == \A i \in 1..Len(cs) : \A j \in 1..Len(cs[i]) : ParseOk(cs[i][j])

ToMatrix(cs) == [i \in 1..Len(cs) |-> [j \in 1..Len(cs[i]) |-> ParseVal(cs[i][j])]]


(***************************************************************************)
(* multiply_matrices (lines 287-302).  Rust indexes from 0, the model from *)
(* 1.  An index past the end of a row or of a matrix panics.               *)
(***************************************************************************)
MulInRange(a, b) ==
    /\ Len(b) >= 1                                   \* m2[0] of line 288
    /\ \A i \in 1..Len(a) : \A j \in 1..Len(b[1]) : \A k \in 1..Len(b) :
           k <= Len(a[i]) /\ j <= Len(b[k])          \* m1[i][k], m2[k][j] of line 296

\* the value result[i][j] holds after the first n rounds of the k loop
RECURSIVE Accumulate(_, _, _, _, _)
Accumulate(a, b, i, j, n) ==
    IF n = 0 THEN 0
    ELSE Accumulate(a, b, i, j, n - 1) + a[i][n] * b[n][j]

\* a multiply_matrices whose line 296 assigns with = where the code has +=
multiply_matrices_assign(a, b) ==
    [i \in 1..Len(a) |-> [j \in 1..Len(b[1]) |-> a[i][Len(b)] * b[Len(b)][j]]]

multiply_matrices(a, b) ==
    [i \in 1..Len(a) |-> [j \in 1..Len(b[1]) |-> Accumulate(a, b, i, j, Len(b))]]

(***************************************************************************)
(* String::push and String::pop; pop of the empty string returns None and  *)
(* leaves the string as it is.                                             *)
(***************************************************************************)
Push(s, c) == Append(s, c)
Pop(s) == IF Len(s) = 0 THEN s ELSE SubSeq(s, 1, Len(s) - 1)

Active == matrix_text[curr_matrix]
Running == status = "running"

\* the part of every arm of the match: the event is taken off rx (line 135)
Received(key) ==
    /\ Running
    /\ last_key' = key
    /\ was_empty' = (Len(Active) = 0)

(***************************************************************************)
(* The arms of the match of run_app (lines 135-169).                       *)
(***************************************************************************)
\* an App::next that keeps the input trace
KeyTabKeepsTrace ==
    /\ Received("Tab")
    /\ curr_matrix' = (curr_matrix + 1) % 2
    /\ UNCHANGED <<curr_string, matrix_text, answer, status, thrVars>>

\* an App::next that adds 2 where the code adds 1
KeyTabByTwo ==
    /\ Received("Tab")
    /\ curr_string' = <<>>
    /\ curr_matrix' = (curr_matrix + 2) % 2
    /\ UNCHANGED <<matrix_text, answer, status, thrVars>>

\* KeyCode::Tab, app.next() (lines 66-69, 137-139)
KeyTab ==
    /\ Received("Tab")
    /\ curr_string' = <<>>
    /\ curr_matrix' = (curr_matrix + 1) % 2
    /\ UNCHANGED <<matrix_text, answer, status, thrVars>>

\* KeyCode::Char('q') (lines 140-142)
KeyQ ==
    /\ Received("q")
    /\ status' = "returned"
    /\ UNCHANGED <<curr_matrix, matrix_text, curr_string, answer, thrVars>>

\* a digit arm that also clears the answer
KeyDigitClears ==
    \E c \in KeyDigits :
        /\ Received(c)
        /\ Len(Active) < MaxLen
        /\ matrix_text' = [matrix_text EXCEPT ![curr_matrix] = Push(@, c)]
        /\ curr_string' = Push(curr_string, c)
        /\ answer' = None
        /\ UNCHANGED <<curr_matrix, status, thrVars>>

\* '0'..='9' (lines 144-147)
KeyDigit ==
    \E c \in KeyDigits :
        /\ Received(c)
        /\ Len(Active) < MaxLen
        /\ matrix_text' = [matrix_text EXCEPT ![curr_matrix] = Push(@, c)]
        /\ curr_string' = Push(curr_string, c)
        /\ UNCHANGED <<curr_matrix, answer, status, thrVars>>

\* a ' ' arm that stores the space itself on the buffer
KeySpaceLiteral ==
    /\ Received(" ")
    /\ Len(Active) < MaxLen
    /\ matrix_text' = [matrix_text EXCEPT ![curr_matrix] = Push(@, " ")]
    /\ curr_string' = Push(curr_string, "_")
    /\ UNCHANGED <<curr_matrix, answer, status, thrVars>>

\* ' ' (lines 148-151)
KeySpace ==
    /\ Received(" ")
    /\ Len(Active) < MaxLen
    /\ matrix_text' = [matrix_text EXCEPT ![curr_matrix] = Push(@, "_")]
    /\ curr_string' = Push(curr_string, "_")
    /\ UNCHANGED <<curr_matrix, answer, status, thrVars>>

(***************************************************************************)
(* 't': parse_matrices (lines 152-154, 355-379).  A failed unwrap() of the *)
(* parse and an index out of range in multiply_matrices panic; run_app     *)
(* catches nothing, so the panic ends the session.                         *)
(***************************************************************************)
parse_matrices ==
    LET c1 == CellStrings(matrix_text[0])
        c2 == CellStrings(matrix_text[1])
    IN  IF AllParse(c1) /\ AllParse(c2) /\ MulInRange(ToMatrix(c1), ToMatrix(c2))
        THEN /\ answer' = Some(multiply_matrices(ToMatrix(c1), ToMatrix(c2)))
             /\ status' = status
        ELSE /\ status' = "panicked"
             /\ answer' = answer

KeyT ==
    /\ Received("t")
    /\ parse_matrices
    /\ UNCHANGED <<curr_matrix, matrix_text, curr_string, thrVars>>

\* an Enter arm that also moves on to the other matrix
KeyEnterSwitches ==
    /\ Received("Enter")
    /\ Len(Active) < MaxLen
    /\ matrix_text' = [matrix_text EXCEPT ![curr_matrix] = Push(@, "\n")]
    /\ curr_string' = <<>>
    /\ curr_matrix' = (curr_matrix + 1) % 2
    /\ UNCHANGED <<answer, status, thrVars>>

\* KeyCode::Enter (lines 157-160)
KeyEnter ==
    /\ Received("Enter")
    /\ Len(Active) < MaxLen
    /\ matrix_text' = [matrix_text EXCEPT ![curr_matrix] = Push(@, "\n")]
    /\ curr_string' = <<>>
    /\ UNCHANGED <<curr_matrix, answer, status, thrVars>>

\* a Backspace that pops both buffers
KeyBackspaceBoth ==
    /\ Received("Backspace")
    /\ matrix_text' = [i \in 0..1 |-> Pop(matrix_text[i])]
    /\ curr_string' = Pop(curr_string)
    /\ UNCHANGED <<curr_matrix, answer, status, thrVars>>

\* a Backspace whose pop() is unwrapped
KeyBackspaceUnwrap ==
    /\ Received("Backspace")
    /\ matrix_text' = [matrix_text EXCEPT ![curr_matrix] = Pop(@)]
    /\ curr_string' = Pop(curr_string)
    /\ status' = IF Len(Active) = 0 THEN "panicked" ELSE status
    /\ UNCHANGED <<curr_matrix, answer, thrVars>>

\* KeyCode::Backspace (lines 162-165)
KeyBackspace ==
    /\ Received("Backspace")
    /\ matrix_text' = [matrix_text EXCEPT ![curr_matrix] = Pop(@)]
    /\ curr_string' = Pop(curr_string)
    /\ UNCHANGED <<curr_matrix, answer, status, thrVars>>

\* any other character or key code (lines 155, 166) and Ev::Tick (line 168)
KeyOther ==
    \E k \in OtherKeys \cup {"Tick"} :
        /\ Received(k)
        /\ UNCHANGED <<curr_matrix, matrix_text, curr_string, answer, status, thrVars>>

\* App::default() (lines 54-63) entering run_app
AppDefault ==
    /\ curr_matrix = 0
    /\ matrix_text = [i \in 0..1 |-> <<>>]
    /\ curr_string = <<>>
    /\ answer = None
    /\ status = "running"
    /\ last_key = "none"
    /\ was_empty = TRUE

\* multiply_matrices_threaded is not being called
ThreadedIdle ==
    /\ m1 = <<>>
    /\ m2 = <<>>
    /\ thread_count = 0
    /\ cpc = "idle"
    /\ spawned = 0
    /\ joined = 0
    /\ wpc = <<>>
    /\ chan = <<>>
    /\ nsent = <<>>
    /\ taken = 0
    /\ result = <<>>

Init == AppDefault /\ ThreadedIdle

Next ==
    \/ KeyTab
    \/ KeyQ
    \/ KeyDigit
    \/ KeySpace
    \/ KeyT
    \/ KeyEnter
    \/ KeyBackspace
    \/ KeyOther

Spec == Init /\ [][Next]_vars


(***************************************************************************)
(* Buffers for the specification that applies parse_matrices to drawn      *)
(* buffers.  Render(m) is the buffer the keys of lines 144-160 build when  *)
(* the matrix m is typed: the digits of each cell, ' ' (stored as '_')     *)
(* between the cells of a row and Enter between the rows.                  *)
(***************************************************************************)
DigitChar(d) == <<"0", "1", "2", "3", "4", "5", "6", "7", "8", "9">>[d + 1]

RECURSIVE ToDigits(_)
ToDigits(n) ==
    IF n < 10 THEN <<DigitChar(n)>>
    ELSE ToDigits(n \div 10) \o <<DigitChar(n % 10)>>

RECURSIVE RenderRow(_)
RenderRow(row) ==
    IF Len(row) = 1 THEN ToDigits(row[1])
    ELSE RenderRow(SubSeq(row, 1, Len(row) - 1)) \o <<"_">> \o ToDigits(row[Len(row)])

RECURSIVE Render(_)
Render(m) ==
    IF Len(m) = 1 THEN RenderRow(m[1])
    ELSE Render(SubSeq(m, 1, Len(m) - 1)) \o <<"\n">> \o RenderRow(m[Len(m)])

Rows(m) == Len(m)
Cols(m) == Len(m[1])

\* the r x c matrix whose cells count up from first, row after row
Counting(r, c, first) ==
    [i \in 1..r |-> [j \in 1..c |-> first + (i - 1) * c + (j - 1)]]

\* the drawn matrices; <<<<1, 2>>, <<3, 4>>>>, <<<<5, 6>>, <<7, 8>>>> and
\* <<<<1, 2>>>> of the end-to-end scenarios are among them
DrawnMatrices ==
    {Counting(r, c, first) : r \in 1..MaxDim, c \in 1..MaxDim, first \in 0..MaxFirst}

\* each well-formed matrix with the buffer that describes it
Rendered == {<<m, Render(m)>> : m \in DrawnMatrices}

\* buffers that describe no matrix: empty, ragged, a trailing row separator,
\* an empty cell
OtherBuffers ==
    { <<>>,
      <<"1", "_", "2", "\n", "3">>,
      <<"1", "_", "2", "\n">>,
      <<"1", "_", "2", "\n", "3", "_", "4", "\n">>,
      <<"1", "_", "_", "2">>,
      <<"1", "_">> }

DrawnBuffers == {p[2] : p \in Rendered} \cup OtherBuffers

(***************************************************************************)
(* The state after buffer 0 and then buffer 1 were typed and Tab was       *)
(* pressed once more: the selector is back at 0 and the trace is empty.    *)
(***************************************************************************)
InitCompute ==
    /\ \E t0 \in DrawnBuffers, t1 \in DrawnBuffers :
           /\ matrix_text = [i \in 0..1 |-> IF i = 0 THEN t0 ELSE t1]
           /\ was_empty = (Len(t1) = 0)
    /\ curr_matrix = 0
    /\ curr_string = <<>>
    /\ answer = None
    /\ status = "running"
    /\ last_key = "Tab"
    /\ ThreadedIdle

NextCompute == KeyT

SpecCompute == InitCompute /\ [][NextCompute]_vars


(***************************************************************************)
(* multiply_matrices_threaded (lines 304-353).  The calling thread spawns  *)
(* thread_count workers, joins them in the order of spawning, then takes   *)
(* thread_count / 2 reports off the channel.  Worker th is "unspawned",    *)
(* "started" (line 316), "send" (range not empty, lines 325-336 to come)   *)
(* or "done" (the closure has returned).                                   *)
(***************************************************************************)
Workers == 0..(thread_count - 1)

\* a start_row that divides before it multiplies
start_row_divides_first(th) == th * (Len(m1) \div thread_count)

start_row(th) == (th * Len(m1)) \div thread_count          \* line 319
end_row(th) == ((th + 1) * Len(m1)) \div thread_count      \* line 320

\* lines 318, 325-335: curr_result, with the rows start..end-1 computed
curr_result(start, end) ==
    [i \in 1..Len(m1) |->
        IF start < i /\ i <= end
        THEN [j \in 1..Len(m2[1]) |-> Accumulate(m1, m2, i, j, Len(m2))]
        ELSE <<>>]

\* lines 311-338: one round of the spawning loop
Spawn ==
    /\ cpc = "spawn"
    /\ spawned < thread_count
    /\ wpc' = [wpc EXCEPT ![spawned] = "started"]
    /\ spawned' = spawned + 1
    /\ cpc' = IF spawned + 1 = thread_count THEN "join" ELSE "spawn"
    /\ UNCHANGED <<m1, m2, thread_count, joined, chan, nsent, taken, result, appVars>>

\* a worker without the early return of lines 322-324
WorkerRangeNoReturn(th) ==
    /\ wpc[th] = "started"
    /\ wpc' = [wpc EXCEPT ![th] = "send"]
    /\ UNCHANGED <<m1, m2, thread_count, cpc, spawned, joined, chan, nsent, taken,
                   result, appVars>>

\* lines 316-324: the worker finds its range and returns if it is empty
WorkerRange(th) ==
    /\ wpc[th] = "started"
    /\ wpc' = [wpc EXCEPT ![th] = IF start_row(th) = end_row(th) THEN "done" ELSE "send"]
    /\ UNCHANGED <<m1, m2, thread_count, cpc, spawned, joined, chan, nsent, taken,
                   result, appVars>>

\* lines 325-337: the worker computes its rows, sends its report and returns
WorkerSend(th) ==
    /\ wpc[th] = "send"
    /\ chan' = Append(chan, <<start_row(th), end_row(th),
                              curr_result(start_row(th), end_row(th))>>)
    /\ nsent' = [nsent EXCEPT ![th] = @ + 1]
    /\ wpc' = [wpc EXCEPT ![th] = "done"]
    /\ UNCHANGED <<m1, m2, thread_count, cpc, spawned, joined, taken, result, appVars>>

\* a join loop that does not wait for the worker to terminate
JoinNoWait ==
    /\ cpc = "join"
    /\ joined < thread_count
    /\ joined' = joined + 1
    /\ IF joined + 1 = thread_count
       THEN cpc' = "drain" /\ result' = [i \in 1..Len(m1) |-> <<>>]
       ELSE UNCHANGED <<cpc, result>>
    /\ UNCHANGED <<m1, m2, thread_count, spawned, wpc, chan, nsent, taken, appVars>>

\* lines 340-344: join() of the next worker returns once it has terminated;
\* after the last join the result vector is made
Join ==
    /\ cpc = "join"
    /\ joined < thread_count
    /\ wpc[joined] = "done"
    /\ joined' = joined + 1
    /\ IF joined + 1 = thread_count
       THEN cpc' = "drain" /\ result' = [i \in 1..Len(m1) |-> <<>>]
       ELSE UNCHANGED <<cpc, result>>
    /\ UNCHANGED <<m1, m2, thread_count, spawned, wpc, chan, nsent, taken, appVars>>

\* the number of reports rx.iter().take(..) asks for (line 345)
TakeCount == thread_count \div 2

\* lines 345-350: one round of the receiving loop.  The sender tx of line
\* 306 lives until the function returns, so rx.iter() waits on an empty
\* channel and never ends by itself.
Recv ==
    /\ cpc = "drain"
    /\ taken < TakeCount
    /\ Len(chan) > 0
    /\ LET start == chan[1][1]
           end == chan[1][2]
           m == chan[1][3]
       IN  result' = [i \in 1..Len(m1) |->
                        IF start < i /\ i <= end THEN result[i] \o m[i] ELSE result[i]]
    /\ chan' = Tail(chan)
    /\ taken' = taken + 1
    /\ UNCHANGED <<m1, m2, thread_count, cpc, spawned, joined, wpc, nsent, appVars>>

\* line 352: take() has yielded its count of reports, the result is returned
Return ==
    /\ cpc = "drain"
    /\ taken = TakeCount
    /\ cpc' = "returned"
    /\ UNCHANGED <<m1, m2, thread_count, spawned, joined, wpc, chan, nsent, taken,
                   result, appVars>>

\* a call multiply_matrices_threaded(&m1, &m2, thread_count) with an
\* r x n and an n x p matrix, at line 305; r = 0 is the matrix without rows
InitThreaded ==
    /\ \E r \in 0..MaxRows, n \in 1..MaxDim, p \in 1..MaxDim :
           /\ m1 = Counting(r, n, 1)
           /\ m2 = Counting(n, p, 5)
    /\ thread_count \in 1..MaxThreads
    /\ cpc = "spawn"
    /\ spawned = 0
    /\ joined = 0
    /\ wpc = [th \in Workers |-> "unspawned"]
    /\ chan = <<>>
    /\ nsent = [th \in Workers |-> 0]
    /\ taken = 0
    /\ result = <<>>
    /\ AppDefault

NextThreaded ==
    \/ Spawn
    \/ \E th \in Workers : WorkerRange(th)
    \/ \E th \in Workers : WorkerSend(th)
    \/ Join
    \/ Recv
    \/ Return

SpecThreaded == InitThreaded /\ [][NextThreaded]_vars

(***************************************************************************)
(* What the claims speak of.                                               *)
(***************************************************************************)
RECURSIVE SumOf(_)
SumOf(f) ==
    IF DOMAIN f = {} THEN 0
    ELSE LET k == CHOOSE x \in DOMAIN f : TRUE
         IN  f[k] + SumOf([x \in DOMAIN f \ {k} |-> f[x]])

\* the product of an m x n and an n x p matrix
Product(a, b) ==
    [i \in 1..Rows(a) |->
        [j \in 1..Cols(b) |-> SumOf([k \in 1..Rows(b) |-> a[i][k] * b[k][j]])]]

Parsed(text) == ToMatrix(CellStrings(text))
Parses(text) == AllParse(CellStrings(text))

\* the cell strings all parse and two rows differ in their number of cells
IsRagged(text) ==
    /\ Parses(text)
    /\ \E i, j \in 1..Len(CellStrings(text)) :
           Len(CellStrings(text)[i]) # Len(CellStrings(text)[j])

\* the buffer ends with one row separator, the row before it is not empty
EndsWithOneSeparator(text) ==
    /\ Len(text) >= 2
    /\ text[Len(text)] = "\n"
    /\ text[Len(text) - 1] # "\n"

StripSeparator(text) == IF EndsWithOneSeparator(text) THEN Pop(text) ELSE text

\* a step of run_app that handles the key k
Handles(k) == Running /\ last_key' = k

(***************************************************************************)
(* C1: for an m x n matrix m1, an n x p matrix m2 and every thread_count   *)
(* >= 1, multiply_matrices_threaded returns the matrix multiply_matrices   *)
(* returns.                                                                *)
(***************************************************************************)
C1_ThreadedEqualsSequential ==
    (Len(m1) >= 1 /\ cpc = "returned") => result = multiply_matrices(m1, m2)

(***************************************************************************)
(* C2: when the threaded product returns its matrix, the calling thread    *)
(* has received as many reports as workers have sent, and every row of     *)
(* the result was filled exactly once (it has the columns of m2).          *)
(***************************************************************************)
C2_EveryReportTakenOnce ==
    cpc = "returned" =>
        /\ taken = Cardinality({th \in Workers : nsent[th] > 0})
        /\ \A i \in 1..Len(m1) : Len(result[i]) = Cols(m2)

(***************************************************************************)
(* C3: a call of the threaded product on matrices that are not empty       *)
(* returns: as long as it has not returned, the calling thread or a        *)
(* worker has a step to take.                                              *)
(***************************************************************************)
C3_CallReturns ==
    Len(m1) >= 1 => (cpc = "returned" \/ ENABLED NextThreaded)

(***************************************************************************)
(* C4: Compute on two parseable buffers whose inner dimensions differ      *)
(* fails: no matrix is stored, the result slot keeps its value (None       *)
(* here) and the error is reported, the session goes on.                   *)
(* Stated of the code, this is violated: see C4 in RESULTS.json.           *)
(***************************************************************************)
C4_DimensionMismatchFails ==
    last_key = "t" =>
        \A p \in Rendered : \A q \in Rendered :
            (/\ matrix_text[0] = p[2]
             /\ matrix_text[1] = q[2]
             /\ Cols(p[1]) # Rows(q[1]))
            => (answer = None /\ status = "running")

(***************************************************************************)
(* C5: Compute on non-empty buffers of which one holds a cell that is no   *)
(* integer is recoverable: buffers, selector and result stay as they are   *)
(* and the editor keeps running.                                           *)
(***************************************************************************)
C5_ParseFailureRecoverable ==
    [][ (/\ Handles("t")
         /\ matrix_text[0] # <<>>
         /\ matrix_text[1] # <<>>
         /\ ~(Parses(matrix_text[0]) /\ Parses(matrix_text[1])))
        => (/\ UNCHANGED <<matrix_text, curr_matrix, answer>>
            /\ status' = "running") ]_vars

(***************************************************************************)
(* C6: Compute with a buffer whose rows differ in their number of cells    *)
(* fails with RaggedMatrix: it stores no matrix, whatever matrix the       *)
(* other buffer holds, and the session goes on.                            *)
(***************************************************************************)
C6_RaggedRejected ==
    (/\ last_key = "t"
     /\ Parses(matrix_text[0])
     /\ Parses(matrix_text[1])
     /\ IsRagged(matrix_text[0]) \/ IsRagged(matrix_text[1]))
    => (answer = None /\ status = "running")

(***************************************************************************)
(* C7: a buffer that ends with exactly one row separator parses to the     *)
(* matrix of the buffer without it: when Compute succeeds on the buffers   *)
(* without their one trailing separator, it succeeds with it and stores    *)
(* the same product.                                                       *)
(***************************************************************************)
C7_TrailingSeparatorDropped ==
    [][ (/\ Handles("t")
         /\ EndsWithOneSeparator(matrix_text[0]) \/ EndsWithOneSeparator(matrix_text[1])
         /\ Parses(StripSeparator(matrix_text[0]))
         /\ Parses(StripSeparator(matrix_text[1]))
         /\ MulInRange(Parsed(StripSeparator(matrix_text[0])),
                       Parsed(StripSeparator(matrix_text[1]))))
        => (/\ status' = "running"
            /\ answer' = Some(multiply_matrices(Parsed(StripSeparator(matrix_text[0])),
                                                Parsed(StripSeparator(matrix_text[1]))))) ]_vars

(***************************************************************************)
(* C8: for buffers that describe an m x n matrix a and an n x p matrix b,  *)
(* Compute stores the m x p matrix whose cell (i, j) is the sum over k of  *)
(* a[i][k] * b[k][j].                                                      *)
(***************************************************************************)
C8_ComputeStoresProduct ==
    last_key = "t" =>
        \A p \in Rendered : \A q \in Rendered :
            (/\ matrix_text[0] = p[2]
             /\ matrix_text[1] = q[2]
             /\ Cols(p[1]) = Rows(q[1]))
            => (status = "running" /\ answer = Some(Product(p[1], q[1])))

\* rows [1 2],[3 4] times rows [5 6],[7 8] gave [[19,22],[43,50]]
C8_Witness ==
    /\ last_key = "t"
    /\ matrix_text[0] = <<"1", "_", "2", "\n", "3", "_", "4">>
    /\ matrix_text[1] = <<"5", "_", "6", "\n", "7", "_", "8">>
    /\ answer = Some(<<<<19, 22>>, <<43, 50>>>>)

C10_BackspaceOnEmptyIsNoOp ==
    [][ (Handles("Backspace") /\ Len(Active) = 0)
        => (/\ UNCHANGED <<matrix_text, curr_string, curr_matrix, answer>>
            /\ status' = "running") ]_vars

\* Backspace was pressed on an empty active buffer, with text in the other
\* buffer and a result on display
C10_Witness ==
    /\ last_key = "Backspace"
    /\ was_empty
    /\ status = "running"
    /\ Len(Active) = 0
    /\ Len(matrix_text[1 - curr_matrix]) > 0
    /\ answer # None


(***************************************************************************)
(* C11: Tab empties the input trace and flips the selector (0 to 1, 1 to   *)
(* 0); the selector is always 0 or 1, so two Tabs in a row restore it.     *)
(***************************************************************************)
C11_SwitchBufferFlips ==
    /\ [](curr_matrix \in {0, 1})
    /\ [][ Handles("Tab")
           => (curr_string' = <<>> /\ curr_matrix' = 1 - curr_matrix) ]_vars

\* Tab brought the selector back to 0, where buffer 0 holds text, and
\* emptied the trace
C11_Witness ==
    /\ last_key = "Tab"
    /\ curr_matrix = 0
    /\ Len(matrix_text[0]) > 0
    /\ Len(matrix_text[1]) > 0
    /\ curr_string = <<>>

(***************************************************************************)
(* C12: the selector changes on Tab only: every other key and the tick     *)
(* leave it as it is, whichever matrix is selected.                        *)
(***************************************************************************)
C12_SelectorChangesOnlyOnTab ==
    [][ curr_matrix' # curr_matrix => Handles("Tab") ]_vars

\* Compute ran and Enter was pressed while matrix 1 was selected
C12_Witness ==
    /\ curr_matrix = 1
    /\ last_key = "Enter"
    /\ answer # None

(***************************************************************************)
(* C13: there is no result at the start and the result slot changes on a   *)
(* Compute that succeeds only; every other key leaves it, so a stored      *)
(* product stays while the buffers change under it.                        *)
(***************************************************************************)
C13_ResultWrittenOnlyByCompute ==
    /\ answer = None
    /\ [][ answer' # answer => (Handles("t") /\ status' = "running") ]_vars

\* the product [[4]] of "2" and "2" is still stored after a digit was added
C13_Witness ==
    /\ answer = Some(<<<<4>>>>)
    /\ last_key \in KeyDigits
    /\ matrix_text[0] = <<"2", "2">>
    /\ matrix_text[1] = <<"2">>


AllWorkersDone == \A th \in Workers : wpc[th] = "done"

(***************************************************************************)
(* C14: the calling thread receives no report and makes no result vector   *)
(* before every spawned worker has terminated and was joined.              *)
(***************************************************************************)
C14_JoinBeforeReceive ==
    (taken > 0 \/ cpc \in {"drain", "returned"})
    => (joined = thread_count /\ AllWorkersDone)

\* a first report was received, two workers had sent one
C14_Witness ==
    /\ cpc = "drain"
    /\ taken = 1
    /\ Len(chan) = 1
    /\ thread_count >= 2

(***************************************************************************)
(* C15: for rows >= 0 and thread_count >= 1 the ranges                     *)
(* [start_row(th), end_row(th)) of the workers 0..thread_count-1 are       *)
(* contiguous and pairwise disjoint, cover exactly 0..rows-1 and differ in *)
(* size by at most 1: every row belongs to exactly one worker.             *)
(***************************************************************************)
RangeOf(th) == start_row(th)..(end_row(th) - 1)
SizeOf(th) == end_row(th) - start_row(th)

C15_RangesPartitionRows ==
    cpc # "idle" =>
        /\ start_row(0) = 0
        /\ end_row(thread_count - 1) = Len(m1)
        /\ \A th \in Workers : start_row(th) <= end_row(th)
        /\ \A th \in Workers : th + 1 \in Workers => end_row(th) = start_row(th + 1)
        /\ \A t1, t2 \in Workers : t1 # t2 => RangeOf(t1) \cap RangeOf(t2) = {}
        /\ UNION {RangeOf(th) : th \in Workers} = 0..(Len(m1) - 1)
        /\ \A t1, t2 \in Workers : SizeOf(t1) - SizeOf(t2) <= 1
        /\ \A i \in 0..(Len(m1) - 1) :
               Cardinality({th \in Workers : i \in RangeOf(th)}) = 1

\* three workers on two rows have found their ranges: one is empty
C15_Witness ==
    /\ thread_count = 3
    /\ Len(m1) = 2
    /\ AllWorkersDone
    /\ {SizeOf(th) : th \in Workers} = {0, 1}

(***************************************************************************)
(* C16: a worker sends one report before it terminates if its range is     *)
(* not empty and none if it is empty, so once all workers have terminated  *)
(* min(thread_count, rows) reports were put on the channel.                *)
(***************************************************************************)
Min(a, b) == IF a <= b THEN a ELSE b

C16_OneReportPerWorker ==
    cpc # "idle" =>
        /\ \A th \in Workers :
               /\ nsent[th] <= 1
               /\ wpc[th] = "done" =>
                      nsent[th] = IF start_row(th) < end_row(th) THEN 1 ELSE 0
               /\ wpc[th] # "done" => nsent[th] = 0
        /\ AllWorkersDone => Len(chan) + taken = Min(thread_count, Len(m1))

\* five workers on two rows have terminated: two reports are on the channel
C16_Witness ==
    /\ thread_count = 5
    /\ Len(m1) = 2
    /\ AllWorkersDone
    /\ taken = 0
    /\ Len(chan) = 2


(***************************************************************************)
(* C17: no event changes the buffer that is not selected: digits, space,   *)
(* Enter and Backspace change the active buffer only.                      *)
(***************************************************************************)
C17_OtherBufferUnchanged ==
    [][ matrix_text'[1 - curr_matrix] = matrix_text[1 - curr_matrix] ]_vars

\* Backspace emptied buffer 1 while buffer 0 kept its two characters
C17_Witness ==
    /\ last_key = "Backspace"
    /\ ~was_empty
    /\ curr_matrix = 1
    /\ matrix_text[1] = <<>>
    /\ Len(matrix_text[0]) = 2

(***************************************************************************)
(* C18: the input trace is always a suffix of the active buffer and holds  *)
(* no row separator; right after Enter and right after Tab it is empty.    *)
(***************************************************************************)
IsSuffix(t, s) ==
    /\ Len(t) <= Len(s)
    /\ \A i \in 1..Len(t) : t[i] = s[Len(s) - Len(t) + i]

C18_TraceIsSuffixOfActive ==
    /\ IsSuffix(curr_string, Active)
    /\ \A i \in 1..Len(curr_string) : curr_string[i] # "\n"
    /\ last_key \in {"Enter", "Tab"} => curr_string = <<>>

\* a digit typed after Enter: the trace is the last row of the buffer only
C18_Witness ==
    /\ Active = <<"\n", "2">>
    /\ curr_string = <<"2">>
    /\ Len(matrix_text[1 - curr_matrix]) > 0

(***************************************************************************)
(* C19: both buffers hold only digits, '_' (stored for every typed space)  *)
(* and the row separator; a character key that is no digit and no space    *)
(* changes neither buffer nor the trace; and the cells the parser splits   *)
(* off hold no '_' and no row separator.                                   *)
(***************************************************************************)
C19_BufferAlphabet ==
    /\ [](\A b \in 0..1 :
            /\ \A i \in 1..Len(matrix_text[b]) :
                   matrix_text[b][i] \in Digits \cup {"_", "\n"}
            /\ \A r \in 1..Len(CellStrings(matrix_text[b])) :
                   \A c \in 1..Len(CellStrings(matrix_text[b])[r]) :
                       \A i \in 1..Len(CellStrings(matrix_text[b])[r][c]) :
                           CellStrings(matrix_text[b])[r][c][i] \in Digits)
    /\ [][ (\E k \in OtherKeys \cup {"t", "q"} : Handles(k))
           => UNCHANGED <<matrix_text, curr_string>> ]_vars

\* a key that is ignored was pressed on a buffer that holds a stored '_'
C19_Witness ==
    /\ last_key \in OtherKeys
    /\ Active = <<"2", "_">>
    /\ curr_string = <<"2", "_">>

====
